---- MODULE Spec2Model ----
(***************************************************************************)
(* Model of the crate `dirty` (src/src/lib.rs): Dirty<T>, a value of type  *)
(* T paired with a dirty flag.  One binding `d: Dirty<T>` is modelled,     *)
(* together with the mutable handle write() hands out and the history      *)
(* needed to state what each call returned.                                *)
(***************************************************************************)
EXTENDS Integers, FiniteSets, Sequences, TLC

\* ------------------------------------------------------------------ bounds
\* T is modelled by the integers 0..MaxVal.
MaxVal == 2
\* Longest run of consecutive write_dirty(f) calls that is tracked as one run.
MaxStreak == 3
\* Longest run of consecutive read-only calls that is tracked as one run.
MaxRun == 3

Values == 0 .. MaxVal

\* <i32 as Default>::default(), the T::default() of the tests.
DefaultT == 0

\* The closures handed to write_dirty: the constant closures (|_| c) and the
\* closures that add a constant (|x| x + k, wrapping inside Values).
Fns ==
    {[x \in Values |-> c] : c \in Values}
        \cup {[x \in Values |-> (x + k) % (MaxVal + 1)] : k \in Values}

Id == [x \in Values |-> x]

\* ---------------------------------------------------------- return values
RetUnit == [kind |-> "unit", b |-> FALSE, v |-> DefaultT]
RetBool(b) == [kind |-> "bool", b |-> b, v |-> DefaultT]
RetRef(v) == [kind |-> "ref", b |-> FALSE, v |-> v]
RetMut(v) == [kind |-> "mut", b |-> FALSE, v |-> v]
RetVal(v) == [kind |-> "val", b |-> FALSE, v |-> v]
Some(v) == [kind |-> "some", b |-> FALSE, v |-> v]
None == [kind |-> "none", b |-> FALSE, v |-> DefaultT]
RetCell(c) == [kind |-> "cell", b |-> FALSE, v |-> DefaultT, c |-> c]

NoArg == [v |-> DefaultT, f |-> Id]
ArgVal(v) == [v |-> v, f |-> Id]
ArgFn(f) == [v |-> DefaultT, f |-> f]
\* The right operand of `d == e`.
ArgCell(c) == [v |-> DefaultT, f |-> Id, c |-> c]

\* ------------------------------------------------- the methods of Dirty<T>
\* The struct is [value |-> T, dirty |-> bool].  A constructor yields the
\* struct; a method yields [self |-> the struct it leaves behind,
\* ret |-> what it returns].

new(val) == [value |-> val, dirty |-> TRUE]

\* Variant: the clean constructor sets the flag like new().
new_clean_sets_flag(val) == [value |-> val, dirty |-> TRUE]

new_clean(val) == [value |-> val, dirty |-> FALSE]

\* Variant: Default written by hand as Self::new(T::default()).
default_via_new == [value |-> DefaultT, dirty |-> TRUE]

\* #[derive(Default)]: every field takes its type's default.
default == [value |-> DefaultT, dirty |-> FALSE]

dirty(self) == [self |-> self, ret |-> RetBool(self.dirty)]

\* Variant: write() hands out the handle and leaves the flag alone.
write_keeps_flag(self) == [self |-> self, ret |-> RetMut(self.value)]

\* self.dirty = true; &mut self.value
write(self) ==
    LET s == [self EXCEPT !.dirty = TRUE]
    IN  [self |-> s, ret |-> RetMut(s.value)]

\* Variant: reading consumes the flag.
read_clears_flag(self) ==
    [self |-> [self EXCEPT !.dirty = FALSE], ret |-> RetRef(self.value)]

read(self) == [self |-> self, ret |-> RetRef(self.value)]

\* Variant: clear() also resets the value.
clear_resets_value(self) ==
    [self |-> [value |-> DefaultT, dirty |-> FALSE], ret |-> RetUnit]

clear(self) == [self |-> [self EXCEPT !.dirty = FALSE], ret |-> RetUnit]

\* Variant: the match arms of read_dirty are swapped.
read_dirty_swapped(self) ==
    [self |-> self, ret |-> IF self.dirty THEN None ELSE Some(self.value)]

\* Variant: read_dirty() takes the flag, as a read "since last read" would.
read_dirty_takes_flag(self) ==
    [self |-> [self EXCEPT !.dirty = FALSE],
     ret |-> IF self.dirty THEN Some(self.value) ELSE None]

read_dirty(self) ==
    [self |-> self, ret |-> IF self.dirty THEN Some(self.value) ELSE None]

\* Variant: write_dirty stores f's result whatever the flag.
write_dirty_always(self, f) ==
    [self |-> [self EXCEPT !.value = f[self.value]], ret |-> RetBool(self.dirty)]

\* Variant: write_dirty marks the cell dirty whenever it is called.
write_dirty_marks(self, f) ==
    [self |-> [value |-> IF self.dirty THEN f[self.value] ELSE self.value,
               dirty |-> TRUE],
     ret |-> RetBool(self.dirty)]

\* Variant: write_dirty clears the flag once it has applied f.
write_dirty_then_clear(self, f) ==
    [self |-> IF self.dirty THEN [value |-> f[self.value], dirty |-> FALSE] ELSE self,
     ret |-> RetBool(self.dirty)]

\* if self.dirty { self.value = f(&self.value); }  self.dirty
write_dirty(self, f) ==
    LET s == IF self.dirty THEN [self EXCEPT !.value = f[self.value]] ELSE self
    IN  [self |-> s, ret |-> RetBool(s.dirty)]

\* Variant: unwrap() yields the value only when the flag is set.
unwrap_if_dirty(self) ==
    [self |-> self, ret |-> RetVal(IF self.dirty THEN self.value ELSE DefaultT)]

unwrap(self) == [self |-> self, ret |-> RetVal(self.value)]

deref(self) == [self |-> self, ret |-> RetRef(self.value)]

\* An assignment through the handle write() returned: `*h = v`, h being
\* &mut self.value.
store(self, v) == [self EXCEPT !.value = v]

\* #[derive(Clone)]: every field is cloned.
clone(self) == [value |-> self.value, dirty |-> self.dirty]

\* Variant: equality written through Deref, on the value alone.
eq_value_only(self, other) == self.value = other.value

\* #[derive(PartialEq)]: the fields are compared in turn, value then dirty.
eq(self, other) == self.value = other.value /\ self.dirty = other.dirty

\* `d.unwrap()` takes d by value.  Dirty<T> derives Copy, so d is moved out of
\* only when T is not Copy; otherwise the call takes a copy and d stays
\* initialised.
moved_out(isCopy) == ~isCopy

\* ------------------------------------------------------------------- state
VARIABLES
    cell,         \* the struct: [value |-> T, dirty |-> bool]
    live,         \* the binding holds a cell (it has not been moved out of)
    tCopy,        \* T: Copy, hence Dirty<T>: Copy
    borrow,       \* the handle of the last write() is still usable
    op,           \* the last call
    ret,          \* what the last call returned
    arg,          \* the argument of the last call
    pre,          \* the struct and the last call, as they were before the last call
    streak,       \* consecutive write_dirty(f) calls on a dirty cell: [n, start, f]
    roRun,        \* consecutive read-only calls: [n, base]
    lastFlagOp,   \* the most recent constructor, write() or clear()
    readSinceMod, \* the value was read and not written since
    stored,       \* the value last stored: by a constructor, through a handle, by write_dirty
    earlier,      \* `let e = d.clone()`: [taken, cell], the cell's earlier self
    sinceClone,   \* what was called on d since the clone: "none", "taken", "written", "cleared", "other"
    dirtyRun,     \* the cell has been seen dirty, with no clear() and no new cell since
    cleanSnap     \* [has, v]: the value at the last clear(), or at a clean construction

vars ==
    <<cell, live, tCopy, borrow, op, ret, arg, pre, streak, roRun, lastFlagOp,
      readSinceMod, stored, earlier, sinceClone, dirtyRun, cleanSnap>>

ReadOnlyOps == {"read", "read_dirty", "dirty", "deref"}
Constructors == {"new", "new_clean", "default"}
FlagOps == Constructors \cup {"write", "clear"}

NoSnap == [has |-> FALSE, v |-> DefaultT]

NoStreak == [n |-> 0, start |-> DefaultT, f |-> Id]

\* The history of a call `name` that leaves the struct `c2`, returned `r` and
\* was given `a`.
Track(name, c2, r, a) ==
    /\ op' = name
    /\ ret' = r
    /\ arg' = a
    /\ pre' = [cell |-> cell, op |-> op, read |-> readSinceMod]
    /\ streak' =
        IF name = "write_dirty" /\ cell.dirty
        THEN IF streak.n \in 1 .. (MaxStreak - 1) /\ streak.f = a.f
             THEN [streak EXCEPT !.n = streak.n + 1]
             ELSE [n |-> 1, start |-> cell.value, f |-> a.f]
        ELSE NoStreak
    /\ roRun' =
        IF name \in ReadOnlyOps
        THEN IF roRun.n \in 1 .. (MaxRun - 1)
             THEN [roRun EXCEPT !.n = roRun.n + 1]
             ELSE [n |-> 1, base |-> cell]
        ELSE [n |-> 0, base |-> c2]
    /\ lastFlagOp' = IF name \in FlagOps THEN name ELSE lastFlagOp
    /\ readSinceMod' =
        CASE name \in {"read", "deref", "unwrap"} -> TRUE
          [] name = "read_dirty" -> readSinceMod \/ r.kind = "some"
          [] name \in Constructors \cup {"write", "store"} -> FALSE
          [] name = "write_dirty" -> readSinceMod /\ ~cell.dirty
          [] OTHER -> readSinceMod
    /\ stored' =
        CASE name \in {"new", "new_clean", "store"} -> a.v
          [] name = "default" -> DefaultT
          [] name = "write_dirty" /\ cell.dirty -> a.f[cell.value]
          [] OTHER -> stored
    /\ earlier' = IF name = "clone" THEN [taken |-> TRUE, cell |-> r.c] ELSE earlier
    /\ sinceClone' =
        CASE name = "clone" -> "taken"
          [] name = "eq" -> sinceClone
          [] name = "write" /\ sinceClone = "taken" -> "written"
          [] name = "store" /\ sinceClone = "written" -> "written"
          [] name = "clear" /\ sinceClone = "written" -> "cleared"
          [] OTHER -> IF sinceClone = "none" THEN "none" ELSE "other"
    /\ dirtyRun' =
        CASE name \in Constructors -> c2.dirty
          [] name = "clear" -> FALSE
          [] OTHER -> dirtyRun \/ c2.dirty
    /\ cleanSnap' =
        CASE name = "new" -> NoSnap
          [] name = "new_clean" -> [has |-> TRUE, v |-> a.v]
          [] name = "default" -> [has |-> TRUE, v |-> DefaultT]
          [] name = "clear" -> [has |-> TRUE, v |-> cell.value]
          [] OTHER -> cleanSnap

\* The state right after `let mut d = <constructor>`.
Init ==
    /\ tCopy \in BOOLEAN
    /\ \E v \in Values :
        \/ cell = new(v) /\ op = "new" /\ arg = ArgVal(v)
        \/ cell = new_clean(v) /\ op = "new_clean" /\ arg = ArgVal(v)
        \/ cell = default /\ op = "default" /\ arg = NoArg
    /\ live = TRUE
    /\ borrow = FALSE
    /\ ret = RetUnit
    /\ pre = [cell |-> cell, op |-> "none", read |-> FALSE]
    /\ streak = NoStreak
    /\ roRun = [n |-> 0, base |-> cell]
    /\ lastFlagOp = op
    /\ readSinceMod = FALSE
    /\ stored = arg.v
    /\ earlier = [taken |-> FALSE, cell |-> default]
    /\ sinceClone = "none"
    /\ dirtyRun = cell.dirty
    /\ cleanSnap = IF op = "new" THEN NoSnap ELSE [has |-> TRUE, v |-> arg.v]

\* ----------------------------------------------------------------- actions
\* d = Dirty::new(v)
CallNew ==
    \E v \in Values :
        /\ cell' = new(v)
        /\ live' = TRUE
        /\ borrow' = FALSE
        /\ Track("new", cell', RetUnit, ArgVal(v))
        /\ UNCHANGED tCopy

\* d = Dirty::new_clean(v)
CallNewClean ==
    \E v \in Values :
        /\ cell' = new_clean(v)
        /\ live' = TRUE
        /\ borrow' = FALSE
        /\ Track("new_clean", cell', RetUnit, ArgVal(v))
        /\ UNCHANGED tCopy

\* d = Dirty::default()
CallDefault ==
    /\ cell' = default
    /\ live' = TRUE
    /\ borrow' = FALSE
    /\ Track("default", cell', RetUnit, NoArg)
    /\ UNCHANGED tCopy

\* d.dirty()
CallDirty ==
    /\ live
    /\ LET r == dirty(cell)
       IN  /\ cell' = r.self
           /\ Track("dirty", r.self, r.ret, NoArg)
    /\ borrow' = FALSE
    /\ UNCHANGED <<live, tCopy>>

\* let h = d.write()
CallWrite ==
    /\ live
    /\ LET r == write(cell)
       IN  /\ cell' = r.self
           /\ Track("write", r.self, r.ret, NoArg)
    /\ borrow' = TRUE
    /\ UNCHANGED <<live, tCopy>>

\* *h = v, while the handle of the last write() is usable
HandleStore ==
    /\ live
    /\ borrow
    /\ \E v \in Values :
        /\ cell' = store(cell, v)
        /\ Track("store", cell', RetUnit, ArgVal(v))
    /\ UNCHANGED <<live, tCopy, borrow>>

\* d.read()
CallRead ==
    /\ live
    /\ LET r == read(cell)
       IN  /\ cell' = r.self
           /\ Track("read", r.self, r.ret, NoArg)
    /\ borrow' = FALSE
    /\ UNCHANGED <<live, tCopy>>

\* *d
CallDeref ==
    /\ live
    /\ LET r == deref(cell)
       IN  /\ cell' = r.self
           /\ Track("deref", r.self, r.ret, NoArg)
    /\ borrow' = FALSE
    /\ UNCHANGED <<live, tCopy>>

\* d.clear()
CallClear ==
    /\ live
    /\ LET r == clear(cell)
       IN  /\ cell' = r.self
           /\ Track("clear", r.self, r.ret, NoArg)
    /\ borrow' = FALSE
    /\ UNCHANGED <<live, tCopy>>

\* d.read_dirty()
CallReadDirty ==
    /\ live
    /\ LET r == read_dirty(cell)
       IN  /\ cell' = r.self
           /\ Track("read_dirty", r.self, r.ret, NoArg)
    /\ borrow' = FALSE
    /\ UNCHANGED <<live, tCopy>>

\* d.write_dirty(f)
CallWriteDirty ==
    /\ live
    /\ \E f \in Fns :
        LET r == write_dirty(cell, f)
        IN  /\ cell' = r.self
            /\ Track("write_dirty", r.self, r.ret, ArgFn(f))
    /\ borrow' = FALSE
    /\ UNCHANGED <<live, tCopy>>

\* d.unwrap()
CallUnwrap ==
    /\ live
    /\ LET r == unwrap(cell)
       IN  /\ cell' = r.self
           /\ Track("unwrap", r.self, r.ret, NoArg)
    /\ live' = ~moved_out(tCopy)
    /\ borrow' = FALSE
    /\ UNCHANGED tCopy

\* let e = d.clone()
CallClone ==
    /\ live
    /\ Track("clone", cell, RetCell(clone(cell)), NoArg)
    /\ borrow' = FALSE
    /\ UNCHANGED <<cell, live, tCopy>>

\* The right operands of `d == other`: the earlier self, or a fresh cell.
Operands ==
    (IF earlier.taken THEN {earlier.cell} ELSE {})
        \cup {new(v) : v \in Values}
        \cup {new_clean(v) : v \in Values}

\* d == other
CallEq ==
    /\ live
    /\ \E other \in Operands :
        Track("eq", cell, RetBool(eq(cell, other)), ArgCell(other))
    /\ borrow' = FALSE
    /\ UNCHANGED <<cell, live, tCopy>>

Next ==
    \/ CallNew
    \/ CallNewClean
    \/ CallDefault
    \/ CallDirty
    \/ CallWrite
    \/ HandleStore
    \/ CallRead
    \/ CallDeref
    \/ CallClear
    \/ CallReadDirty
    \/ CallWriteDirty
    \/ CallUnwrap
    \/ CallClone
    \/ CallEq

Spec == Init /\ [][Next]_vars

\* ------------------------------------------------------------ properties
\* f applied k times to x.
RECURSIVE Iter(_, _, _)
Iter(f, k, x) == IF k = 0 THEN x ELSE Iter(f, k - 1, f[x])

\* The calls on an existing cell.
Methods ==
    \/ CallDirty
    \/ CallWrite
    \/ HandleStore
    \/ CallRead
    \/ CallDeref
    \/ CallClear
    \/ CallReadDirty
    \/ CallWriteDirty
    \/ CallUnwrap
    \/ CallClone
    \/ CallEq

\* C1: right after write() the flag is dirty and dirty() returns true,
\* whatever the flag and the value were before; write() itself leaves the
\* value alone, and the flag stays dirty through the stores made with the
\* handle.
C1_WriteSetsDirty ==
    /\ op = "write" =>
        /\ cell.dirty
        /\ dirty(cell).ret = RetBool(TRUE)
        /\ cell.value = pre.cell.value
    /\ op = "store" => cell.dirty

\* C1 witness: write() on a clean cell, the value not changed.
C1_Witness ==
    /\ op = "write"
    /\ ~pre.cell.dirty
    /\ cell.dirty
    /\ cell.value = pre.cell.value
    /\ cell.value # DefaultT

\* C2: right after clear() the flag is clean, dirty() returns false and the
\* value is the value held before the call.
C2_ClearKeepsValue ==
    op = "clear" =>
        /\ ~cell.dirty
        /\ dirty(cell).ret = RetBool(FALSE)
        /\ cell.value = pre.cell.value

\* C2 witness: clear() on a dirty cell holding a non-default value.
C2_Witness ==
    /\ op = "clear"
    /\ pre.cell.dirty
    /\ ~cell.dirty
    /\ cell.value # DefaultT

\* C3: read(), read_dirty(), dirty() and deref leave the flag and the value
\* unchanged: after a run of them, in any order, the struct is what it was
\* before the run.
C3_ReadOnlyFrame ==
    /\ op \in ReadOnlyOps => cell = pre.cell
    /\ roRun.n > 0 => cell = roRun.base

\* C3 witness: a run of several read-only calls on a dirty cell, the flag
\* still set.
C3_Witness ==
    /\ roRun.n >= 2
    /\ op = "read_dirty"
    /\ pre.op = "read"
    /\ cell.dirty
    /\ cell.value # DefaultT

\* C4: read_dirty() returns Some(current value) if and only if the flag was
\* dirty right before the call, and None otherwise: None right after clear(),
\* Some right after write().
C4_ReadDirtyIffDirty ==
    op = "read_dirty" =>
        /\ ret = IF pre.cell.dirty THEN Some(pre.cell.value) ELSE None
        /\ pre.op = "clear" => ret = None
        /\ pre.op \in {"write", "store"} => ret = Some(cell.value)

\* C4 witness: read_dirty() right after a store through write()'s handle.
C4_Witness ==
    /\ op = "read_dirty"
    /\ pre.op = "store"
    /\ ret = Some(cell.value)
    /\ cell.value # DefaultT

\* C5: write_dirty(f) returns the flag as it was before the call; the value
\* becomes f(previous value) if that flag was true and is unchanged if not.
C5_WriteDirtyResult ==
    op = "write_dirty" =>
        /\ ret = RetBool(pre.cell.dirty)
        /\ cell.value =
            IF pre.cell.dirty THEN arg.f[pre.cell.value] ELSE pre.cell.value

\* C5 witness: write_dirty(f) on a clean cell, f's result differing from the
\* value, which is not stored.
C5_Witness ==
    /\ op = "write_dirty"
    /\ ~pre.cell.dirty
    /\ ret = RetBool(FALSE)
    /\ arg.f[pre.cell.value] # pre.cell.value
    /\ cell.value = pre.cell.value

\* C6: write_dirty(f) never changes the flag; on a dirty cell, k consecutive
\* write_dirty(f) calls each return true and leave f applied k times to the
\* starting value.
C6_WriteDirtyKeepsFlag ==
    /\ op = "write_dirty" => cell.dirty = pre.cell.dirty
    /\ streak.n > 0 =>
        /\ op = "write_dirty"
        /\ ret = RetBool(TRUE)
        /\ cell.dirty
        /\ cell.value = Iter(streak.f, streak.n, streak.start)

\* C6 witness: a run of write_dirty(f) calls whose later calls changed the
\* value again.
C6_Witness ==
    /\ streak.n >= 2
    /\ cell.value # streak.f[streak.start]
    /\ cell.value # streak.start

\* C7: new(v) yields a dirty cell and new_clean(v) a clean one, both holding v.
C7_ConstructorFlag ==
    /\ op = "new" => cell = [value |-> arg.v, dirty |-> TRUE]
    /\ op = "new_clean" => cell = [value |-> arg.v, dirty |-> FALSE]
    /\ op \in {"new", "new_clean"} => live /\ dirty(cell).ret = RetBool(op = "new")

\* C7 witness: new_clean(v) replacing a dirty cell, v not the default value.
C7_Witness ==
    /\ op = "new_clean"
    /\ pre.cell.dirty
    /\ ~cell.dirty
    /\ cell.value # DefaultT

C9_UnwrapConsumes ==
    op = "unwrap" =>
        /\ ret = RetVal(pre.cell.value)
        /\ ret = RetVal(stored)
        /\ ~ENABLED Methods

\* C9, amended: unwrap() returns the current value, the value last stored,
\* whatever the flag; the cell accepts no further call afterwards unless T is
\* Copy, in which case unwrap() took a copy and the cell is left as it was.
C9_UnwrapConsumesUnlessCopy ==
    op = "unwrap" =>
        /\ ret = RetVal(pre.cell.value)
        /\ ret = RetVal(stored)
        /\ ~tCopy => ~live /\ ~ENABLED Methods
        /\ tCopy => live /\ cell = pre.cell /\ ENABLED Methods

\* C9 witness: unwrap() of a clean cell of a type that is not Copy, the value
\* stored through a handle and the flag cleared before.
C9_Witness ==
    /\ op = "unwrap"
    /\ ~tCopy
    /\ ~live
    /\ ~cell.dirty
    /\ ret = RetVal(stored)
    /\ stored # DefaultT

\* C10: a default-constructed cell is clean (dirty() returns false) and holds
\* T's default value.
C10_DefaultClean ==
    op = "default" =>
        /\ ~cell.dirty
        /\ dirty(cell).ret = RetBool(FALSE)
        /\ cell.value = DefaultT
        /\ live

\* C10 witness: Dirty::default() replacing a dirty cell that held another value.
C10_Witness ==
    /\ op = "default"
    /\ pre.cell.dirty
    /\ pre.cell.value # DefaultT
    /\ ~cell.dirty
    /\ cell.value = DefaultT

\* C11: equality compares both fields: d == other if and only if the values
\* are equal and the flags are equal, so cells with equal values and different
\* flags (new(v) and new_clean(v)) are unequal; after write() followed by
\* clear(), a cell equals its earlier self only if the value was not changed.
C11_EqBothFields ==
    op = "eq" =>
        /\ ret.b <=> (cell.value = arg.c.value /\ cell.dirty = arg.c.dirty)
        /\ (cell.value = arg.c.value /\ cell.dirty # arg.c.dirty) => ~ret.b
        /\ (earlier.taken /\ arg.c = earlier.cell /\ sinceClone = "cleared") =>
            /\ ret.b => cell.value = earlier.cell.value
            /\ ret.b <=> (~earlier.cell.dirty /\ cell.value = earlier.cell.value)

\* C11 witness: a dirty cell compared with a clean cell of the same value.
C11_Witness ==
    /\ op = "eq"
    /\ cell.dirty
    /\ ~arg.c.dirty
    /\ cell.value = arg.c.value
    /\ cell.value # DefaultT
    /\ ret = RetBool(FALSE)

\* C12: once the flag is dirty it stays dirty until clear() (or until the
\* binding is given a new cell): on an existing cell, clear() is the only call
\* that takes the flag from dirty to clean and write() the only call that
\* takes it from clean to dirty.
C12_DirtyUntilClear ==
    /\ dirtyRun => cell.dirty
    /\ (op \notin Constructors /\ pre.cell.dirty /\ ~cell.dirty) => op = "clear"
    /\ (op \notin Constructors /\ ~pre.cell.dirty /\ cell.dirty) => op = "write"

\* C12 witness: a cell made clean, written, then taken through write_dirty
\* and a read with no clear(), still dirty.
C12_Witness ==
    /\ dirtyRun
    /\ lastFlagOp = "write"
    /\ pre.op = "write_dirty"
    /\ op = "read_dirty"
    /\ cell.dirty
    /\ cleanSnap.has

\* C13: whenever the flag is clean, the value is the value the cell held at
\* its most recent clear(), or at its clean construction if clear() was not
\* called since; the value differs from that snapshot only while the flag is
\* dirty.
C13_CleanMeansUnmodified ==
    /\ ~cell.dirty => cleanSnap.has /\ cell.value = cleanSnap.v
    /\ (cleanSnap.has /\ cell.value # cleanSnap.v) => cell.dirty

\* C13 witness: a clean cell, cleared after a store, on which write_dirty(f)
\* was called with an f that would have changed the value.
C13_Witness ==
    /\ op = "write_dirty"
    /\ lastFlagOp = "clear"
    /\ ~cell.dirty
    /\ arg.f[cell.value] # cell.value
    /\ cell.value = cleanSnap.v
    /\ cell.value # DefaultT

====
